---- MODULE Spec2Model ----
(***************************************************************************)
(* photo-haven: the relational store (schema, foreign keys and row-level   *)
(* security policies of the migration kept at the end of Profile.tsx), the *)
(* blob bucket, and the React pages that drive them (Home, Albums,         *)
(* AlbumDetail).                                                           *)
(*                                                                         *)
(* Every awaited backend call of a handler is one atomic step; what other  *)
(* tabs, sessions or clients of the backend do between two steps is the    *)
(* Api* actions: one SQL statement issued under a caller's identity and    *)
(* filtered by the policies.                                               *)
(***************************************************************************)
EXTENDS Integers, Sequences, FiniteSets, TLC

\* ------------------------------------------------------------- bounds
MaxPhotos == 2      \* photo rows ever created (ids are never reused)
MaxAlbums == 1      \* album rows ever created
MaxProfileRows == 3 \* profile rows ever created
MaxListed == 3      \* album rows ever created, where the list of albums is read

UserIds == {"u1", "u2"}
PhotoIds == 1..MaxPhotos
AlbumIds == 1..MaxAlbums

\* SQL NULL for a uuid column and for a text column, and auth.uid() of a
\* request without a session
NULL == 0
NoText == <<>>
NoUser == "anon"
\* the empty string "", which is not NULL
Empty == <<"">>

\* error codes the client gets back in { error }
OK == "ok"
RlsViolation == "42501"      \* new row violates row-level security policy
UniqueViolation == "23505"   \* duplicate key value violates unique constraint
FkViolation == "23503"       \* insert violates foreign key constraint
NotNullViolation == "23502"
NoRows == "PGRST116"         \* .single() on a result of zero rows
NetworkError == "fetch"      \* the request did not reach the backend

VARIABLES
    users,         \* auth.users: ids of the accounts that exist
    profiles,      \* public.profiles: set of rows
    photos,        \* public.photos: set of rows
    albums,        \* public.albums: set of rows
    album_photos,  \* public.album_photos: set of rows
    blobs,         \* storage.objects of bucket 'photos': set of object names
    nextPhoto,     \* gen_random_uuid() for photos: next unused id
    nextAlbum,     \* gen_random_uuid() for albums
    nextProfile,   \* gen_random_uuid() for profiles
    timestamps,    \* whether added_at is kept (no page ever reads it)
    limit,         \* how many photo and album rows the behaviour may create,
                   \* and how many values Date.now() takes
    user,          \* the tab's session user (useState user), NoUser if none
    pc,            \* the await the tab's running handler is suspended at
    pending,       \* the locals of that handler
    homePhotos,    \* Home: useState photos
    albumsList,    \* Albums: useState albums
    album,         \* AlbumDetail: useState album, NoAlbum for null
    albumPhotos,   \* AlbumDetail: useState albumPhotos
    availablePhotos, \* AlbumDetail: useState availablePhotos
    selectedPhotos,  \* AlbumDetail: useState selectedPhotos, in click order
    loading,       \* AlbumDetail: useState loading
    dialogOpen,    \* AlbumDetail: useState dialogOpen
    authLoad,      \* AlbumDetail: the loadAlbumData run that onAuthStateChange started
    displayName,   \* Profile: useState displayName
    avatarUrl,     \* Profile: useState avatarUrl
    shownBefore,   \* Profile: displayName and avatarUrl as they were when the
                   \* tab's latest write handler started: a history kept for
                   \* the properties, which no action reads
    toast,         \* the toast the latest step raised: its title and its error
    response,      \* { error } the latest request of another client got back
    effect         \* the rows the tab's latest delete removed or cleared: a
                   \* history kept for the properties, which no action reads

store == <<users, profiles, photos, albums, album_photos, blobs,
           nextPhoto, nextAlbum, nextProfile, timestamps, limit>>
detail == <<album, albumPhotos, availablePhotos, selectedPhotos, loading, dialogOpen,
            authLoad>>
profileForm == <<displayName, avatarUrl, shownBefore>>
vars == <<users, profiles, photos, albums, album_photos, blobs,
          nextPhoto, nextAlbum, nextProfile, timestamps, limit,
          user, pc, pending, homePhotos, albumsList,
          album, albumPhotos, availablePhotos, selectedPhotos, loading, dialogOpen,
          authLoad, displayName, avatarUrl, shownBefore,
          toast, response, effect>>

\* ------------------------------------------------------------ helpers
Range(s) == {s[i] : i \in DOMAIN s}

Max(S) == IF S = {} THEN 0 ELSE CHOOSE x \in S : \A y \in S : y <= x

Ids(rows) == {r.id : r \in rows}

\* the arrays a read without an order clause may answer for the rows S: the
\* rows in any order
Arrays(S) ==
    {s \in [1..Cardinality(S) -> S] : \A i, j \in 1..Cardinality(S) : i # j => s[i] # s[j]}

\* the rows of table with id = id (at most one: id is the primary key)
ById(table, id) == {r \in table : r.id = id}

Pairs(rows) == {<<r.album_id, r.photo_id>> : r \in rows}

\* the account's contact address
Email(u) == <<"email", u>>

\* ------------------------------------------------------- blob bucket
\* `${user.id}/${Date.now()}.${fileExt}`: the first path segment and the rest
ObjectName(uid, file) == [folder |-> uid, file |-> file]

\* getPublicUrl(fileName): <base>/storage/v1/object/public/photos/<fileName>
PublicUrl(name) == <<"public", "photos", name>>

\* photoUrl.split("/photos/")[1]
PathOfUrl(url) == url[3]

\* storage.objects policies: auth.uid()::text = (storage.foldername(name))[1]
\* a variant: the folder of the object is not compared with the caller
FolderUnchecked(uid, name) == TRUE

StorageInsertPolicy(uid, name) == uid = name.folder
StorageUpdatePolicy(uid, name) == uid = name.folder
StorageDeletePolicy(uid, name) == uid = name.folder

\* ------------------------------------------- row-level security policies
\* "Users can view all profiles": using (true)
ProfileSelectPolicy(uid, row) == TRUE
ProfileInsertPolicy(uid, row) == uid = row.user_id
\* a variant: every caller may update every row
UpdateUnchecked(uid, row) == TRUE

ProfileUpdatePolicy(uid, row) == uid = row.user_id
\* a variant: photos readable by everyone, as profiles are
SelectUnchecked(uid, row) == TRUE
PhotoSelectPolicy(uid, row) == uid = row.user_id
\* a variant: photos insertable without a session
InsertUnchecked(uid, row) == TRUE
PhotoInsertPolicy(uid, row) == uid = row.user_id
PhotoUpdatePolicy(uid, row) == uid = row.user_id
PhotoDeletePolicy(uid, row) == uid = row.user_id
AlbumSelectPolicy(uid, row) == uid = row.user_id
AlbumInsertPolicy(uid, row) == uid = row.user_id
AlbumUpdatePolicy(uid, row) == uid = row.user_id
AlbumDeletePolicy(uid, row) == uid = row.user_id

\* a variant: the new row of an update is not checked
CheckOmitted(uid, row) == TRUE

\* an update policy with only a using clause: the clause is also the check
\* of the new row
PhotoUpdateCheck(uid, row) == PhotoUpdatePolicy(uid, row)
AlbumUpdateCheck(uid, row) == AlbumUpdatePolicy(uid, row)

OwnsAlbum(uid, albumId) ==
    \E a \in albums : a.id = albumId /\ a.user_id = uid

AlbumPhotoSelectPolicy(uid, row) == OwnsAlbum(uid, row.album_id)
AlbumPhotoInsertPolicy(uid, row) == OwnsAlbum(uid, row.album_id)
AlbumPhotoDeletePolicy(uid, row) == OwnsAlbum(uid, row.album_id)

\* ------------------------------------------------ constraints of the schema
\* a faulty variant of the unique constraint below, which never refuses
UserIdUnchecked(row) == TRUE

\* profiles.user_id ... unique
ProfileUserIdFree(row) == \A r \in profiles : r.user_id # row.user_id

\* a faulty variant of the primary key below, which never refuses
KeyUnchecked(earlier, row) == TRUE

\* primary key (album_id, photo_id), against the table and the rows the
\* statement has inserted before this one
AlbumPhotoKeyFree(earlier, row) ==
    <<row.album_id, row.photo_id>> \notin Pairs(album_photos) \cup Pairs(Range(earlier))

\* album_id references albums(id), photo_id references photos(id); a foreign
\* key is checked against the table itself, whatever the caller may read
AlbumPhotoRefsExist(row) ==
    /\ row.album_id \in Ids(albums)
    /\ row.photo_id \in Ids(photos)

\* cover_photo_id references photos(id)
CoverRefExists(photoId) == photoId = NULL \/ photoId \in Ids(photos)

\* album_photos.photo_id ... on delete cascade
CascadePhotoToAlbumPhotos(rows, photoIds) ==
    {r \in rows : r.photo_id \notin photoIds}

\* a faulty variant of the cascade below, which keeps the album's rows
KeepMembers(rows, albumIds) == rows

\* album_photos.album_id ... on delete cascade
CascadeAlbumToAlbumPhotos(rows, albumIds) ==
    {r \in rows : r.album_id \notin albumIds}

\* a faulty variant of the rule below, which deletes the album with its cover
DeleteCovered(rows, photoIds) == {r \in rows : r.cover_photo_id \notin photoIds}

\* albums.cover_photo_id ... on delete set null
SetNullCover(rows, photoIds) ==
    {IF r.cover_photo_id \in photoIds THEN [r EXCEPT !.cover_photo_id = NULL] ELSE r
       : r \in rows}

\* added_at ... default now(): the same for all rows of one statement and
\* later than that of every row inserted before. Rows are only ever read one
\* album at a time, so the value kept is the rank among the album's rows; a
\* specification none of whose claims reads added_at keeps 0 instead.
Now(rows, albumId) ==
    IF timestamps
    THEN 1 + Max({r.added_at : r \in {x \in rows : x.album_id = albumId}})
    ELSE 0

\* the same rows with each added_at replaced by its rank among the added_at
\* of the album's rows: timestamps are only ever compared
Rank(rows) ==
    IF ~timestamps THEN rows ELSE
    {[r EXCEPT !.added_at =
         Cardinality({x.added_at : x \in {y \in rows : /\ y.album_id = r.album_id
                                                       /\ y.added_at <= r.added_at}})]
       : r \in rows}

\* ------------------------------------------------------ SQL statements
\* insert into album_photos (album_id, photo_id) values ...: the error of the
\* statement. Each row is checked against the insert policy and then the
\* primary key as it is inserted; foreign keys are checked when the statement
\* ends.
InsertAlbumPhotosError(uid, inserts) ==
    LET rowError(i) ==
            IF ~AlbumPhotoInsertPolicy(uid, inserts[i]) THEN RlsViolation
            ELSE IF ~AlbumPhotoKeyFree(SubSeq(inserts, 1, i - 1), inserts[i])
                 THEN UniqueViolation
            ELSE OK
        bad == {i \in DOMAIN inserts : rowError(i) # OK}
    IN IF bad # {} THEN rowError(CHOOSE i \in bad : \A j \in bad : i <= j)
       ELSE IF \E i \in DOMAIN inserts : ~AlbumPhotoRefsExist(inserts[i])
            THEN FkViolation
       ELSE OK

\* a faulty variant of the statement below, which keeps the rows inserted
\* before the one that raised the error
InsertWithoutRollback(uid, inserts) ==
    LET passes(i) == /\ AlbumPhotoInsertPolicy(uid, inserts[i])
                     /\ AlbumPhotoKeyFree(SubSeq(inserts, 1, i - 1), inserts[i])
                     /\ AlbumPhotoRefsExist(inserts[i])
        kept == {i \in DOMAIN inserts : \A j \in 1..i : passes(j)}
    IN Rank(album_photos \cup
              {[album_id |-> inserts[i].album_id,
                photo_id |-> inserts[i].photo_id,
                added_at |-> Now(album_photos, inserts[i].album_id)]
                 : i \in kept})

\* ... and the table after it: a statement that raises an error is rolled back
InsertAlbumPhotosRows(uid, inserts) ==
    IF InsertAlbumPhotosError(uid, inserts) = OK
    THEN Rank(album_photos \cup
              {[album_id |-> inserts[i].album_id,
                photo_id |-> inserts[i].photo_id,
                added_at |-> Now(album_photos, inserts[i].album_id)]
                 : i \in DOMAIN inserts})
    ELSE album_photos

\* a variant: the filter on photo_id is dropped
DeleteAllOfAlbum(uid, albumId, photoId) ==
    {r \in album_photos : ~(r.album_id = albumId /\ AlbumPhotoDeletePolicy(uid, r))}

\* delete from album_photos where album_id = .. and photo_id = ..: rows the
\* delete policy hides are not deleted, and that is no error
DeleteAlbumPhotoRows(uid, albumId, photoId) ==
    Rank({r \in album_photos : ~(/\ r.album_id = albumId
                                 /\ r.photo_id = photoId
                                 /\ AlbumPhotoDeletePolicy(uid, r))})

\* delete from photos where id = ..: the rows deleted
DeletePhotoTargets(uid, photoId) ==
    {r \in ById(photos, photoId) : PhotoDeletePolicy(uid, r)}

\* delete from albums where id = ..: the rows deleted
DeleteAlbumTargets(uid, albumId) ==
    {r \in ById(albums, albumId) : AlbumDeletePolicy(uid, r)}

\* the three tables after delete from photos where id = photoId
DeletePhotoStatement(uid, photoId) ==
    LET gone == Ids(DeletePhotoTargets(uid, photoId))
    IN /\ photos' = {r \in photos : r.id \notin gone}
       /\ album_photos' = Rank(CascadePhotoToAlbumPhotos(album_photos, gone))
       /\ albums' = SetNullCover(albums, gone)

\* the tables after delete from albums where id = albumId
DeleteAlbumStatement(uid, albumId) ==
    LET gone == Ids(DeleteAlbumTargets(uid, albumId))
    IN /\ albums' = {r \in albums : r.id \notin gone}
       /\ album_photos' = Rank(CascadeAlbumToAlbumPhotos(album_photos, gone))
       /\ UNCHANGED photos

\* insert into photos (user_id, url, ...): the error
InsertPhotoError(uid, row) ==
    IF ~PhotoInsertPolicy(uid, row) THEN RlsViolation
    ELSE IF row.user_id \notin users THEN FkViolation
    ELSE OK

\* insert into albums (user_id, name, description): the error
InsertAlbumError(uid, row) ==
    IF row.name = NoText THEN NotNullViolation
    ELSE IF ~AlbumInsertPolicy(uid, row) THEN RlsViolation
    ELSE IF row.user_id \notin users THEN FkViolation
    ELSE OK

\* insert into profiles (user_id, display_name): the error
InsertProfileError(uid, row) ==
    IF ~ProfileInsertPolicy(uid, row) THEN RlsViolation
    ELSE IF ~ProfileUserIdFree(row) THEN UniqueViolation
    ELSE IF row.user_id \notin users THEN FkViolation
    ELSE OK

\* select photos(id, url, title) from album_photos where album_id = ..: one
\* entry per row the select policy shows, its embedded photo null when the
\* photo policy hides the photo
NullPhoto == [id |-> NULL, url |-> NoText]

EmbeddedPhoto(uid, photoId) ==
    LET found == {p \in ById(photos, photoId) : PhotoSelectPolicy(uid, p)}
    IN IF found = {} THEN NullPhoto
       ELSE LET p == CHOOSE q \in found : TRUE IN [id |-> p.id, url |-> p.url]

SelectAlbumPhotos(uid, albumId) ==
    {[added_at |-> r.added_at, photos |-> EmbeddedPhoto(uid, r.photo_id)]
       : r \in {x \in album_photos : /\ x.album_id = albumId
                                     /\ AlbumPhotoSelectPolicy(uid, x)}}

\* photosData.map((ap) => ap.photos).filter(Boolean)
FilterBoolean(data) ==
    LET kept == SelectSeq(data, LAMBDA ap : ap.photos # NullPhoto)
    IN [i \in 1..Len(kept) |-> kept[i].photos]

\* select * from photos where user_id = userId
SelectPhotos(uid, userId) ==
    {p \in photos : p.user_id = userId /\ PhotoSelectPolicy(uid, p)}

\* select * from albums where user_id = userId
SelectAlbums(uid, userId) ==
    {a \in albums : a.user_id = userId /\ AlbumSelectPolicy(uid, a)}


\* update albums set cover_photo_id = p where id = a: the rows the update
\* policy shows are updated, if the reference exists
UpdateAlbumCover(uid, albumId, photoId) ==
    IF CoverRefExists(photoId)
    THEN {IF r.id = albumId /\ AlbumUpdatePolicy(uid, r)
          THEN [r EXCEPT !.cover_photo_id = photoId] ELSE r : r \in albums}
    ELSE albums

\* update photos set user_id = owner where id = photoId: the rows the using
\* clause shows, as they would be after the update, and the error
UpdatePhotoOwnerRows(uid, photoId, owner) ==
    {[r EXCEPT !.user_id = owner] : r \in {x \in ById(photos, photoId) : PhotoUpdatePolicy(uid, x)}}

UpdatePhotoOwnerError(uid, photoId, owner) ==
    IF \E r \in UpdatePhotoOwnerRows(uid, photoId, owner) : ~PhotoUpdateCheck(uid, r)
    THEN RlsViolation
    ELSE IF UpdatePhotoOwnerRows(uid, photoId, owner) # {} /\ owner \notin users
    THEN FkViolation
    ELSE OK

\* update albums set user_id = owner where id = albumId
UpdateAlbumOwnerRows(uid, albumId, owner) ==
    {[r EXCEPT !.user_id = owner] : r \in {x \in ById(albums, albumId) : AlbumUpdatePolicy(uid, x)}}

UpdateAlbumOwnerError(uid, albumId, owner) ==
    IF \E r \in UpdateAlbumOwnerRows(uid, albumId, owner) : ~AlbumUpdateCheck(uid, r)
    THEN RlsViolation
    ELSE IF UpdateAlbumOwnerRows(uid, albumId, owner) # {} /\ owner \notin users
    THEN FkViolation
    ELSE OK

\* update profiles set display_name = .., avatar_url = .. where user_id = ..
UpdateProfile(uid, userId, name, avatar) ==
    {IF r.user_id = userId /\ ProfileUpdatePolicy(uid, r)
     THEN [r EXCEPT !.display_name = name, !.avatar_url = avatar] ELSE r
       : r \in profiles}

\* handle_new_user(): insert into profiles (user_id, display_name)
\* values (new.id, new.email)
\* a variant: the trigger inserts the user_id only
NewUserWithoutName(rows, id, u) ==
    rows \cup {[id |-> id, user_id |-> u,
                display_name |-> NoText, avatar_url |-> NoText]}

HandleNewUser(rows, id, u) ==
    rows \cup {[id |-> id, user_id |-> u,
                display_name |-> Email(u), avatar_url |-> NoText]}

\* ------------------------------------------------------------- toasts
NoToast == [title |-> "", err |-> OK]

\* toast({ title, description: error.message, variant: "destructive" })
ErrorToast(title, err) == [title |-> title, err |-> err]

\* toast({ title, description })
Toast(title) == [title |-> title, err |-> OK]

\* no loadAlbumData run of the auth listener is under way
NoRun == [pc |-> "none"]

NoPending == [op |-> "none"]

NoAlbum == [id |-> NULL]

NoEffect == [photos |-> {}, albums |-> {}, members |-> {}, covers |-> {}]

\* what a statement removed: the ids of the photo and album rows deleted, the
\* (album, photo) pairs deleted, and the albums whose cover was cleared
Removed(photosAfter, albumsAfter, membersAfter) ==
    [photos |-> Ids(photos) \ Ids(photosAfter),
     albums |-> Ids(albums) \ Ids(albumsAfter),
     members |-> Pairs(album_photos) \ Pairs(membersAfter),
     covers |-> {a.id : a \in {x \in albums : /\ x.cover_photo_id # NULL
                                              /\ x.id \in Ids(albumsAfter)
                                              /\ x \notin albumsAfter}}]

\* a step of the backend or of another client: the tab does nothing
TabIdle ==
    /\ toast' = NoToast
    /\ effect' = NoEffect
    /\ UNCHANGED <<profileForm, user, pc, pending, homePhotos, albumsList, detail>>

\* a step of the tab: no other client gets an answer
Quiet == response' = OK

\* -------------------------------------------------- the auth provider
\* an account is created: the row of auth.users and, by the trigger
\* on_auth_user_created, its profile, in one transaction
SignUp(u) ==
    /\ u \notin users
    /\ nextProfile <= MaxProfileRows
    /\ users' = users \cup {u}
    /\ profiles' = HandleNewUser(profiles, nextProfile, u)
    /\ nextProfile' = nextProfile + 1
    /\ UNCHANGED <<photos, albums, album_photos, blobs, nextPhoto, nextAlbum,
                   timestamps, limit>>
    /\ TabIdle
    /\ Quiet

\* an existing account authenticates: getSession / onAuthStateChange hand the
\* page a session; it calls setUser(session.user) and starts its load
SignIn(u) ==
    /\ u \in users
    /\ user = NoUser
    /\ user' = u
    /\ pc' = "load"
    /\ toast' = NoToast
    /\ effect' = NoEffect
    /\ Quiet
    /\ UNCHANGED <<pending, homePhotos, albumsList, detail, profileForm>>
    /\ UNCHANGED store

\* the session ends while no handler is suspended at a write:
\* onAuthStateChange without a session, navigate("/auth"), and the page is
\* unmounted, its state back to the useState defaults
SignOut ==
    /\ user # NoUser
    /\ pc \in {"idle", "load"}
    /\ user' = NoUser
    /\ pc' = "idle"
    /\ pending' = NoPending
    /\ homePhotos' = {}
    /\ albumsList' = <<>>
    /\ album' = NoAlbum
    /\ albumPhotos' = <<>>
    /\ availablePhotos' = {}
    /\ selectedPhotos' = <<>>
    /\ loading' = TRUE
    /\ dialogOpen' = FALSE
    /\ authLoad' = NoRun
    /\ displayName' = Empty
    /\ avatarUrl' = Empty
    /\ UNCHANGED shownBefore
    /\ toast' = NoToast
    /\ effect' = NoEffect
    /\ Quiet
    /\ UNCHANGED store

\* ------------------------- requests of other tabs, sessions and clients
\* insert into photos (user_id, url) values (u, url), by caller c
ApiInsertPhoto(c, u, url) ==
    /\ nextPhoto <= limit.photos
    /\ LET row == [id |-> nextPhoto, user_id |-> u, url |-> url,
                   created_at |-> nextPhoto]
       IN /\ response' = InsertPhotoError(c, row)
          /\ IF InsertPhotoError(c, row) = OK
             THEN /\ photos' = photos \cup {row}
                  /\ nextPhoto' = nextPhoto + 1
             ELSE UNCHANGED <<photos, nextPhoto>>
    /\ UNCHANGED <<users, profiles, albums, album_photos, blobs, nextAlbum, nextProfile, timestamps, limit>>
    /\ TabIdle

\* insert into albums (user_id, name) values (u, name), by caller c
ApiInsertAlbum(c, u, name) ==
    /\ nextAlbum <= limit.albums
    /\ LET row == [id |-> nextAlbum, user_id |-> u, name |-> name,
                   cover_photo_id |-> NULL, created_at |-> nextAlbum]
       IN /\ response' = InsertAlbumError(c, row)
          /\ IF InsertAlbumError(c, row) = OK
             THEN /\ albums' = albums \cup {row}
                  /\ nextAlbum' = nextAlbum + 1
             ELSE UNCHANGED <<albums, nextAlbum>>
    /\ UNCHANGED <<users, profiles, photos, album_photos, blobs, nextPhoto, nextProfile, timestamps, limit>>
    /\ TabIdle

\* insert into album_photos (album_id, photo_id) values ..., by caller c
ApiInsertAlbumPhotos(c, inserts) ==
    /\ album_photos' = InsertAlbumPhotosRows(c, inserts)
    /\ response' = InsertAlbumPhotosError(c, inserts)
    /\ UNCHANGED <<users, profiles, photos, albums, blobs,
                   nextPhoto, nextAlbum, nextProfile, timestamps, limit>>
    /\ TabIdle

\* delete from album_photos where album_id = a and photo_id = p, by caller c
ApiDeleteAlbumPhoto(c, a, p) ==
    /\ album_photos' = DeleteAlbumPhotoRows(c, a, p)
    /\ response' = OK
    /\ UNCHANGED <<users, profiles, photos, albums, blobs,
                   nextPhoto, nextAlbum, nextProfile, timestamps, limit>>
    /\ TabIdle

\* delete from photos where id = p, by caller c
ApiDeletePhoto(c, p) ==
    /\ DeletePhotoStatement(c, p)
    /\ response' = OK
    /\ UNCHANGED <<users, profiles, blobs, nextPhoto, nextAlbum, nextProfile, timestamps, limit>>
    /\ TabIdle

\* delete from albums where id = a, by caller c
ApiDeleteAlbum(c, a) ==
    /\ DeleteAlbumStatement(c, a)
    /\ response' = OK
    /\ UNCHANGED <<users, profiles, blobs, nextPhoto, nextAlbum, nextProfile, timestamps, limit>>
    /\ TabIdle

\* update albums set cover_photo_id = p where id = a, by caller c
ApiUpdateAlbumCover(c, a, p) ==
    /\ albums' = UpdateAlbumCover(c, a, p)
    /\ response' = IF CoverRefExists(p) THEN OK ELSE FkViolation
    /\ UNCHANGED <<users, profiles, photos, album_photos, blobs,
                   nextPhoto, nextAlbum, nextProfile, timestamps, limit>>
    /\ TabIdle

\* update photos set user_id = v where id = p, by caller c
ApiUpdatePhotoOwner(c, p, v) ==
    /\ response' = UpdatePhotoOwnerError(c, p, v)
    /\ photos' = IF UpdatePhotoOwnerError(c, p, v) = OK
                 THEN {r \in photos : r.id \notin Ids(UpdatePhotoOwnerRows(c, p, v))}
                         \cup UpdatePhotoOwnerRows(c, p, v)
                 ELSE photos
    /\ UNCHANGED <<users, profiles, albums, album_photos, blobs,
                   nextPhoto, nextAlbum, nextProfile, timestamps, limit>>
    /\ TabIdle

\* update albums set user_id = v where id = a, by caller c
ApiUpdateAlbumOwner(c, a, v) ==
    /\ response' = UpdateAlbumOwnerError(c, a, v)
    /\ albums' = IF UpdateAlbumOwnerError(c, a, v) = OK
                 THEN {r \in albums : r.id \notin Ids(UpdateAlbumOwnerRows(c, a, v))}
                         \cup UpdateAlbumOwnerRows(c, a, v)
                 ELSE albums
    /\ UNCHANGED <<users, profiles, photos, album_photos, blobs,
                   nextPhoto, nextAlbum, nextProfile, timestamps, limit>>
    /\ TabIdle

\* insert into profiles (user_id) values (u), by caller c
ApiInsertProfile(c, u) ==
    /\ nextProfile <= MaxProfileRows
    /\ LET row == [id |-> nextProfile, user_id |-> u,
                   display_name |-> NoText, avatar_url |-> NoText]
       IN /\ response' = InsertProfileError(c, row)
          /\ IF InsertProfileError(c, row) = OK
             THEN /\ profiles' = profiles \cup {row}
                  /\ nextProfile' = nextProfile + 1
             ELSE UNCHANGED <<profiles, nextProfile>>
    /\ UNCHANGED <<users, photos, albums, album_photos, blobs, nextPhoto, nextAlbum, timestamps, limit>>
    /\ TabIdle

\* update profiles set display_name = name, avatar_url = avatar
\* where user_id = u, by caller c
ApiUpdateProfile(c, u, name, avatar) ==
    /\ profiles' = UpdateProfile(c, u, name, avatar)
    /\ response' = OK
    /\ UNCHANGED <<users, photos, albums, album_photos, blobs,
                   nextPhoto, nextAlbum, nextProfile, timestamps, limit>>
    /\ TabIdle

\* --------------------------------------------------------------- Home
\* loadPhotos(userId): the read answers
LoadPhotos ==
    /\ pc = "load"
    /\ \/ /\ homePhotos' = SelectPhotos(user, user)
          /\ toast' = NoToast
       \/ /\ toast' = ErrorToast("Erro ao carregar fotos", NetworkError)
          /\ UNCHANGED homePhotos
    /\ pc' = "idle"
    /\ effect' = NoEffect
    /\ UNCHANGED <<profileForm, user, pending, albumsList, detail>>
    /\ Quiet
    /\ UNCHANGED store

\* storage.from("photos").upload(fileName, selectedFile): the error
UploadError(uid, name) ==
    IF ~StorageInsertPolicy(uid, name) THEN RlsViolation
    ELSE IF name \in blobs THEN "Duplicate"
    ELSE OK

\* handleUpload up to the answer of its first await: the blob is uploaded.
\* file is `${Date.now()}.${fileExt}`.
HandleUploadBlob(file) ==
    /\ user # NoUser
    /\ pc = "idle"
    /\ LET fileName == ObjectName(user, file)
           err == UploadError(user, fileName)
       IN \/ /\ err = OK
             /\ blobs' = blobs \cup {fileName}
             /\ pc' = "upload_row"
             /\ pending' = [op |-> "upload", user_id |-> user, fileName |-> fileName]
             /\ toast' = NoToast
          \/ /\ err # OK
             /\ toast' = ErrorToast("Erro ao fazer upload", err)
             /\ UNCHANGED <<blobs, pc, pending>>
          \/ /\ toast' = ErrorToast("Erro ao fazer upload", NetworkError)
             /\ UNCHANGED <<blobs, pc, pending>>
    /\ effect' = NoEffect
    /\ UNCHANGED <<users, profiles, photos, albums, album_photos,
                   nextPhoto, nextAlbum, nextProfile, timestamps, limit>>
    /\ UNCHANGED <<profileForm, user, homePhotos, albumsList, detail>>
    /\ Quiet

\* handleUpload from there to the answer of its second await: the photo row
\* is inserted, with the user.id the handler was created with, and on
\* success loadPhotos is called
HandleUploadRow ==
    /\ pc = "upload_row"
    /\ LET row == [id |-> nextPhoto, user_id |-> pending.user_id,
                   url |-> PublicUrl(pending.fileName), created_at |-> nextPhoto]
           err == IF nextPhoto <= limit.photos THEN InsertPhotoError(user, row)
                                              ELSE NetworkError
       IN \/ /\ err = OK
             /\ photos' = photos \cup {row}
             /\ nextPhoto' = nextPhoto + 1
             /\ toast' = Toast("Foto adicionada!")
             /\ pc' = "load"
          \/ /\ err # OK
             /\ toast' = ErrorToast("Erro ao salvar foto", err)
             /\ pc' = "idle"
             /\ UNCHANGED <<photos, nextPhoto>>
          \/ /\ toast' = ErrorToast("Erro ao salvar foto", NetworkError)
             /\ pc' = "idle"
             /\ UNCHANGED <<photos, nextPhoto>>
    /\ pending' = NoPending
    /\ effect' = NoEffect
    /\ UNCHANGED <<users, profiles, albums, album_photos, blobs, nextAlbum,
                   nextProfile, timestamps, limit>>
    /\ UNCHANGED <<profileForm, user, homePhotos, albumsList, detail>>
    /\ Quiet

\* storage.from("photos").remove([path]): an object the delete policy hides,
\* or that does not exist, is skipped
RemoveBlobs(uid, path) ==
    {b \in blobs : ~(b = path /\ StorageDeletePolicy(uid, b))}

\* handleDelete(photoId, photoUrl), for a photo the page shows, up to the
\* answer of its first await: the blob is removed, or the request fails; the
\* handler does not read the answer
HandleDeleteBlob(photo) ==
    /\ user # NoUser
    /\ pc = "idle"
    /\ photo \in homePhotos
    /\ \/ blobs' = RemoveBlobs(user, PathOfUrl(photo.url))
       \/ UNCHANGED blobs
    /\ pc' = "delete_row"
    /\ pending' = [op |-> "delete", photoId |-> photo.id]
    /\ toast' = NoToast
    /\ effect' = NoEffect
    /\ UNCHANGED <<users, profiles, photos, albums, album_photos,
                   nextPhoto, nextAlbum, nextProfile, timestamps, limit>>
    /\ UNCHANGED <<profileForm, user, homePhotos, albumsList, detail>>
    /\ Quiet

\* handleDelete from there to the answer of its second await: delete from
\* photos where id = photoId, and on success loadPhotos is called
HandleDeleteRow ==
    /\ pc = "delete_row"
    /\ \/ /\ DeletePhotoStatement(user, pending.photoId)
          /\ effect' = Removed(photos', albums', album_photos')
          /\ toast' = Toast("Foto excluída")
          /\ pc' = "load"
       \/ /\ toast' = ErrorToast("Erro ao excluir foto", NetworkError)
          /\ effect' = NoEffect
          /\ pc' = "idle"
          /\ UNCHANGED <<photos, albums, album_photos>>
    /\ pending' = NoPending
    /\ UNCHANGED <<users, profiles, blobs, nextPhoto, nextAlbum, nextProfile,
                   timestamps, limit>>
    /\ UNCHANGED <<profileForm, user, homePhotos, albumsList, detail>>
    /\ Quiet

\* ------------------------------------------------------------- Albums
\* <Input id="name" ... required />: the form is submitted, and handleCreate
\* called, only with a value that is not the empty string
Required(value) == value # Empty

\* a variant: the rows in any order, as without the order clause
Unordered(rows) == Arrays(rows)

\* .order("created_at", { ascending: false }): the arrays of the rows with
\* the latest created_at first
OrderByCreatedAtDesc(rows) ==
    {s \in Arrays(rows) : \A i, j \in DOMAIN s : i < j => s[i].created_at >= s[j].created_at}

\* loadAlbums(userId): select *, album_photos(photos(url)) from albums
\* where user_id = userId order by created_at desc, and the map to
\* formattedAlbums. The embedded album_photos carry no order clause: each
\* album's members come in any order. All arrays the read may answer.
FormattedAlbums(uid, userId) ==
    LET embedded(a) == Arrays(SelectAlbumPhotos(uid, a.id))
        format(a, album_photos_of_a) ==
            [id |-> a.id, user_id |-> a.user_id, name |-> a.name,
             cover_photo_id |-> a.cover_photo_id, created_at |-> a.created_at,
             photos |-> FilterBoolean(album_photos_of_a)]
    IN UNION {
         {[i \in DOMAIN data |-> format(data[i], e[i])]
            : e \in {f \in [DOMAIN data -> UNION {embedded(data[i]) : i \in DOMAIN data}]
                       : \A i \in DOMAIN data : f[i] \in embedded(data[i])}}
         : data \in OrderByCreatedAtDesc(SelectAlbums(uid, userId))}

\* the cover the Albums grid renders for an album: album.photos[0].url, or
\* the folder icon
RenderedCover(a) == IF Len(a.photos) > 0 THEN a.photos[1].url ELSE NoText

\* the count the Albums grid renders: album.photos?.length || 0
RenderedCount(a) == Len(a.photos)

\* loadAlbums: the read answers
LoadAlbums ==
    /\ pc = "load"
    /\ \/ /\ albumsList' \in FormattedAlbums(user, user)
          /\ toast' = NoToast
       \/ /\ toast' = ErrorToast("Erro ao carregar álbuns", NetworkError)
          /\ UNCHANGED albumsList
    /\ pc' = "idle"
    /\ effect' = NoEffect
    /\ UNCHANGED <<profileForm, user, pending, homePhotos, detail>>
    /\ Quiet
    /\ UNCHANGED store

\* handleCreate: insert into albums (user_id, name, description), and on
\* success loadAlbums is called
AlbumsHandleCreate(name) ==
    /\ user # NoUser
    /\ pc = "idle"
    /\ nextAlbum <= limit.albums
    /\ LET row == [id |-> nextAlbum, user_id |-> user, name |-> name,
                   cover_photo_id |-> NULL, created_at |-> nextAlbum]
           err == InsertAlbumError(user, row)
       IN \/ /\ err = OK
             /\ albums' = albums \cup {row}
             /\ nextAlbum' = nextAlbum + 1
             /\ toast' = Toast("Álbum criado!")
             /\ pc' = "load"
          \/ /\ err # OK
             /\ toast' = ErrorToast("Erro ao criar álbum", err)
             /\ UNCHANGED <<albums, nextAlbum, pc>>
          \/ /\ toast' = ErrorToast("Erro ao criar álbum", NetworkError)
             /\ UNCHANGED <<albums, nextAlbum, pc>>
    /\ effect' = NoEffect
    /\ UNCHANGED <<users, profiles, photos, album_photos, blobs, nextPhoto,
                   nextProfile, timestamps, limit>>
    /\ UNCHANGED <<profileForm, user, pending, homePhotos, albumsList, detail>>
    /\ Quiet

\* handleDelete(albumId), for an album the page shows: delete from albums
\* where id = albumId, and on success loadAlbums is called
AlbumsHandleDelete(albumId) ==
    /\ user # NoUser
    /\ pc = "idle"
    /\ albumId \in Ids(Range(albumsList))
    /\ \/ /\ DeleteAlbumStatement(user, albumId)
          /\ effect' = Removed(photos', albums', album_photos')
          /\ toast' = Toast("Álbum excluído")
          /\ pc' = "load"
       \/ /\ toast' = ErrorToast("Erro ao excluir álbum", NetworkError)
          /\ effect' = NoEffect
          /\ UNCHANGED <<photos, albums, album_photos, pc>>
    /\ UNCHANGED <<users, profiles, blobs, nextPhoto, nextAlbum, nextProfile,
                   timestamps, limit>>
    /\ UNCHANGED <<profileForm, user, pending, homePhotos, albumsList, detail>>
    /\ Quiet

\* -------------------------------------------------------- AlbumDetail
\* const { id } = useParams(): the album the route /albums/:id names
id == 1

\* select * from albums where id = .. and user_id = ..
SelectAlbum(uid, albumId, userId) ==
    {a \in albums : /\ a.id = albumId
                    /\ a.user_id = userId
                    /\ AlbumSelectPolicy(uid, a)}

\* select id, url, title from photos: the columns of the rows
PhotoColumns(rows) == {[id |-> p.id, url |-> p.url] : p \in rows}

\* the page is left for /albums: its state is gone
Unmounted ==
    /\ album' = NoAlbum
    /\ albumPhotos' = <<>>
    /\ availablePhotos' = {}
    /\ selectedPhotos' = <<>>
    /\ loading' = TRUE
    /\ dialogOpen' = FALSE
    /\ authLoad' = NoRun

\* loadAlbumData(userId) up to the answer of its first await: the album is
\* read with .single(); answered says whether the request reached the backend
LoadAlbum(answered) ==
    /\ pc = "load"
    /\ LET rows == SelectAlbum(user, id, user)
           albumError == IF ~answered THEN NetworkError
                         ELSE IF rows = {} THEN NoRows
                         ELSE OK
       IN IF albumError # OK
          THEN /\ toast' = ErrorToast("Erro ao carregar álbum", albumError)
               /\ Unmounted
               /\ pc' = "idle"
          ELSE /\ album' = CHOOSE a \in rows : TRUE
               /\ loading' = TRUE
               /\ toast' = NoToast
               /\ pc' = "load_members"
               /\ UNCHANGED <<albumPhotos, availablePhotos, selectedPhotos, dialogOpen,
                              authLoad>>
    /\ effect' = NoEffect
    /\ UNCHANGED <<profileForm, user, pending, homePhotos, albumsList>>
    /\ Quiet
    /\ UNCHANGED store

\* loadAlbumData from there to the answer of its second await: the members
\* are read, with no order clause; the error is not looked at, and without
\* data photos is []
LoadMembers(answered) ==
    /\ pc = "load_members"
    /\ \E photosData \in Arrays(SelectAlbumPhotos(user, id)) :
          LET loaded == IF answered THEN FilterBoolean(photosData) ELSE <<>>
          IN /\ albumPhotos' = loaded
             /\ pending' = [op |-> "load", photos |-> loaded]
    /\ pc' = "load_photos"
    /\ toast' = NoToast
    /\ effect' = NoEffect
    /\ UNCHANGED <<profileForm, user, homePhotos, albumsList,
                   authLoad>>
    /\ UNCHANGED <<album, availablePhotos, selectedPhotos, loading, dialogOpen>>
    /\ Quiet
    /\ UNCHANGED store

\* loadAlbumData from there to its end: the user's photos are read; the error
\* is not looked at, and without data available is []
LoadAvailable(answered) ==
    /\ pc = "load_photos"
    /\ LET allPhotos == PhotoColumns(SelectPhotos(user, user))
           photosInAlbum == Ids(Range(pending.photos))
       IN availablePhotos' = IF answered
                             THEN {p \in allPhotos : p.id \notin photosInAlbum}
                             ELSE {}
    /\ loading' = FALSE
    /\ pc' = "idle"
    /\ pending' = NoPending
    /\ toast' = NoToast
    /\ effect' = NoEffect
    /\ UNCHANGED <<profileForm, user, homePhotos, albumsList,
                   authLoad>>
    /\ UNCHANGED <<album, albumPhotos, selectedPhotos, dialogOpen>>
    /\ Quiet
    /\ UNCHANGED store

\* the callback of supabase.auth.onAuthStateChange with a session: setUser
\* and a loadAlbumData run of its own, up to its first await; the callback is
\* called when it is registered and at every later event of the session
OnAuthStateChange ==
    /\ user # NoUser
    /\ authLoad = NoRun
    /\ authLoad' = [pc |-> "album"]
    /\ loading' = TRUE
    /\ toast' = NoToast
    /\ effect' = NoEffect
    /\ UNCHANGED <<profileForm, user, pc, pending, homePhotos, albumsList>>
    /\ UNCHANGED <<album, albumPhotos, availablePhotos, selectedPhotos, dialogOpen>>
    /\ Quiet
    /\ UNCHANGED store

\* that run up to the answer of its first await
AuthLoadAlbum(answered) ==
    /\ authLoad.pc = "album"
    /\ LET rows == SelectAlbum(user, id, user)
           albumError == IF ~answered THEN NetworkError
                         ELSE IF rows = {} THEN NoRows
                         ELSE OK
       IN IF albumError # OK
          THEN /\ toast' = ErrorToast("Erro ao carregar álbum", albumError)
               /\ Unmounted
               /\ pc' = "idle"
               /\ pending' = NoPending
          ELSE /\ album' = CHOOSE a \in rows : TRUE
               /\ authLoad' = [pc |-> "members"]
               /\ toast' = NoToast
               /\ UNCHANGED <<albumPhotos, availablePhotos, selectedPhotos, loading,
                              dialogOpen, pc, pending>>
    /\ effect' = NoEffect
    /\ UNCHANGED <<profileForm, user, homePhotos, albumsList>>
    /\ Quiet
    /\ UNCHANGED store

\* that run from there to the answer of its second await
AuthLoadMembers(answered) ==
    /\ authLoad.pc = "members"
    /\ \E photosData \in Arrays(SelectAlbumPhotos(user, id)) :
          LET loaded == IF answered THEN FilterBoolean(photosData) ELSE <<>>
          IN /\ albumPhotos' = loaded
             /\ authLoad' = [pc |-> "photos", photos |-> loaded]
    /\ toast' = NoToast
    /\ effect' = NoEffect
    /\ UNCHANGED <<profileForm, user, pc, pending, homePhotos, albumsList>>
    /\ UNCHANGED <<album, availablePhotos, selectedPhotos, loading, dialogOpen>>
    /\ Quiet
    /\ UNCHANGED store

\* that run from there to its end: available is computed from the members
\* this run has read
AuthLoadAvailable(answered) ==
    /\ authLoad.pc = "photos"
    /\ LET allPhotos == PhotoColumns(SelectPhotos(user, user))
           photosInAlbum == Ids(Range(authLoad.photos))
       IN availablePhotos' = IF answered
                             THEN {p \in allPhotos : p.id \notin photosInAlbum}
                             ELSE {}
    /\ loading' = FALSE
    /\ authLoad' = NoRun
    /\ toast' = NoToast
    /\ effect' = NoEffect
    /\ UNCHANGED <<profileForm, user, pc, pending, homePhotos, albumsList>>
    /\ UNCHANGED <<album, albumPhotos, selectedPhotos, dialogOpen>>
    /\ Quiet
    /\ UNCHANGED store

\* the page renders (user and album are set) and no handler is running
Rendered == user # NoUser /\ album # NoAlbum /\ pc = "idle"

\* <Dialog open={dialogOpen} onOpenChange={setDialogOpen}>
SetDialogOpen(open) ==
    /\ Rendered
    /\ dialogOpen # open
    /\ dialogOpen' = open
    /\ toast' = NoToast
    /\ effect' = NoEffect
    /\ UNCHANGED <<profileForm, user, pc, pending, homePhotos, albumsList,
                   authLoad>>
    /\ UNCHANGED <<album, albumPhotos, availablePhotos, selectedPhotos, loading>>
    /\ Quiet
    /\ UNCHANGED store

\* prev.includes(photo.id) ? prev.filter((id) => id !== photo.id)
\*                         : [...prev, photo.id]
Toggle(prev, photoId) ==
    IF photoId \in Range(prev)
    THEN SelectSeq(prev, LAMBDA x : x # photoId)
    ELSE Append(prev, photoId)

\* a click on a photo of the dialog's grid
ToggleSelected(photo) ==
    /\ Rendered
    /\ dialogOpen
    /\ photo \in availablePhotos
    /\ selectedPhotos' = Toggle(selectedPhotos, photo.id)
    /\ toast' = NoToast
    /\ effect' = NoEffect
    /\ UNCHANGED <<profileForm, user, pc, pending, homePhotos, albumsList,
                   authLoad>>
    /\ UNCHANGED <<album, albumPhotos, availablePhotos, loading, dialogOpen>>
    /\ Quiet
    /\ UNCHANGED store

\* the Cancelar button of the dialog
Cancelar ==
    /\ Rendered
    /\ dialogOpen
    /\ availablePhotos # {}
    /\ dialogOpen' = FALSE
    /\ selectedPhotos' = <<>>
    /\ toast' = NoToast
    /\ effect' = NoEffect
    /\ UNCHANGED <<profileForm, user, pc, pending, homePhotos, albumsList,
                   authLoad>>
    /\ UNCHANGED <<album, albumPhotos, availablePhotos, loading>>
    /\ Quiet
    /\ UNCHANGED store

\* selectedPhotos.map((photoId) => ({ album_id: id, photo_id: photoId }))
Inserts(selected) ==
    [i \in DOMAIN selected |-> [album_id |-> id, photo_id |-> selected[i]]]

\* handleAddPhotos, from the dialog's Adicionar button: one insert of all the
\* selected pairs; on success the dialog closes, the selection is emptied and
\* loadAlbumData is called
HandleAddPhotos(answered) ==
    /\ Rendered
    /\ dialogOpen
    /\ availablePhotos # {}
    /\ selectedPhotos # <<>>
    /\ LET inserts == Inserts(selectedPhotos)
           error == IF answered THEN InsertAlbumPhotosError(user, inserts)
                                ELSE NetworkError
       IN /\ album_photos' = IF answered THEN InsertAlbumPhotosRows(user, inserts)
                                         ELSE album_photos
          /\ IF error # OK
             THEN /\ toast' = ErrorToast("Erro ao adicionar fotos", error)
                  /\ UNCHANGED <<pc, selectedPhotos, loading, dialogOpen>>
             ELSE /\ toast' = Toast("Fotos adicionadas!")
                  /\ dialogOpen' = FALSE
                  /\ selectedPhotos' = <<>>
                  /\ loading' = TRUE
                  /\ pc' = "load"
    /\ effect' = NoEffect
    /\ UNCHANGED <<users, profiles, photos, albums, blobs,
                   nextPhoto, nextAlbum, nextProfile, timestamps, limit>>
    /\ UNCHANGED <<profileForm, user, pending, homePhotos, albumsList,
                   authLoad>>
    /\ UNCHANGED <<album, albumPhotos, availablePhotos>>
    /\ Quiet

\* handleRemovePhoto(photoId), from the Remover button of a photo of the
\* grid: delete from album_photos where album_id = id and photo_id = photoId;
\* on success loadAlbumData is called
HandleRemovePhoto(photoId, answered) ==
    /\ Rendered
    /\ ~loading
    /\ photoId \in Ids(Range(albumPhotos))
    /\ IF answered
       THEN /\ album_photos' = DeleteAlbumPhotoRows(user, id, photoId)
            /\ effect' = Removed(photos, albums, album_photos')
            /\ toast' = Toast("Foto removida")
            /\ loading' = TRUE
            /\ pc' = "load"
       ELSE /\ toast' = ErrorToast("Erro ao remover foto", NetworkError)
            /\ effect' = NoEffect
            /\ UNCHANGED <<album_photos, pc, loading>>
    /\ UNCHANGED <<users, profiles, photos, albums, blobs,
                   nextPhoto, nextAlbum, nextProfile, timestamps, limit>>
    /\ UNCHANGED <<profileForm, user, pending, homePhotos, albumsList,
                   authLoad>>
    /\ UNCHANGED <<album, albumPhotos, availablePhotos, selectedPhotos, dialogOpen>>
    /\ Quiet

\* ------------------------------------------------------------ Profile
\* data.display_name || "", data.avatar_url || ""
OrEmpty(text) == IF text = NoText THEN Empty ELSE text

\* displayName || null, avatarUrl || null
OrNull(text) == IF text = Empty THEN NoText ELSE text

\* `${user.id}/avatar.${fileExt}`
AvatarName(uid) == ObjectName(uid, "avatar")

\* select * from profiles where user_id = ..
SelectProfiles(uid, userId) ==
    {r \in profiles : r.user_id = userId /\ ProfileSelectPolicy(uid, r)}

\* update profiles set avatar_url = .. where user_id = ..
UpdateAvatar(uid, userId, avatar) ==
    {IF r.user_id = userId /\ ProfileUpdatePolicy(uid, r)
     THEN [r EXCEPT !.avatar_url = avatar] ELSE r : r \in profiles}

\* storage.from("photos").upload(fileName, file, { upsert: true }): the error
UpsertError(uid, name) ==
    IF ~StorageInsertPolicy(uid, name) THEN RlsViolation
    ELSE IF name \in blobs /\ ~StorageUpdatePolicy(uid, name) THEN RlsViolation
    ELSE OK

\* storage.from("photos").upload(name, file, { upsert }), by caller c
ApiUpload(c, name, upsert) ==
    /\ LET err == IF upsert THEN UpsertError(c, name) ELSE UploadError(c, name)
       IN /\ response' = err
          /\ blobs' = IF err = OK THEN blobs \cup {name} ELSE blobs
    /\ UNCHANGED <<users, profiles, photos, albums, album_photos,
                   nextPhoto, nextAlbum, nextProfile, timestamps, limit>>
    /\ TabIdle

\* storage.from("photos").remove([name]), by caller c
ApiRemove(c, name) ==
    /\ blobs' = RemoveBlobs(c, name)
    /\ response' = OK
    /\ UNCHANGED <<users, profiles, photos, albums, album_photos,
                   nextPhoto, nextAlbum, nextProfile, timestamps, limit>>
    /\ TabIdle

\* the fields the Profile page displays
Shown == [displayName |-> displayName, avatarUrl |-> avatarUrl]

\* loadProfile(userId): the row is read with .single(); data is null when the
\* request fails or the rows are not exactly one, and the error is not read
LoadProfile(answered) ==
    /\ pc = "load"
    /\ LET rows == SelectProfiles(user, user)
       IN IF answered /\ Cardinality(rows) = 1
          THEN LET data == CHOOSE r \in rows : TRUE
               IN /\ displayName' = OrEmpty(data.display_name)
                  /\ avatarUrl' = OrEmpty(data.avatar_url)
          ELSE UNCHANGED <<displayName, avatarUrl>>
    /\ toast' = NoToast
    /\ pc' = "idle"
    /\ effect' = NoEffect
    /\ UNCHANGED <<user, pending, homePhotos, albumsList, detail, shownBefore>>
    /\ Quiet
    /\ UNCHANGED store

\* onChange of the displayName input
SetDisplayName(text) ==
    /\ user # NoUser
    /\ displayName' = text
    /\ toast' = NoToast
    /\ effect' = NoEffect
    /\ UNCHANGED <<user, pc, pending, homePhotos, albumsList, detail,
                   avatarUrl, shownBefore>>
    /\ Quiet
    /\ UNCHANGED store

\* handleSave: update profiles set display_name, avatar_url where
\* user_id = user.id; the submit button is disabled while loading
HandleSave(answered) ==
    /\ user # NoUser
    /\ pc = "idle"
    /\ shownBefore' = Shown
    /\ IF answered
       THEN /\ profiles' = UpdateProfile(user, user, OrNull(displayName),
                                         OrNull(avatarUrl))
            /\ toast' = Toast("Perfil atualizado!")
       ELSE /\ toast' = ErrorToast("Erro ao salvar perfil", NetworkError)
            /\ UNCHANGED profiles
    /\ effect' = NoEffect
    /\ UNCHANGED <<users, photos, albums, album_photos, blobs, nextPhoto,
                   nextAlbum, nextProfile, timestamps, limit>>
    /\ UNCHANGED <<user, pc, pending, homePhotos, albumsList, detail,
                   displayName, avatarUrl>>
    /\ Quiet

\* handleAvatarUpload up to the answer of its first await: the blob is
\* written over the user's avatar object, and on success the page shows its
\* public url
HandleAvatarUploadBlob(answered) ==
    /\ user # NoUser
    /\ pc = "idle"
    /\ shownBefore' = Shown
    /\ LET fileName == AvatarName(user)
           uploadError == IF answered THEN UpsertError(user, fileName)
                                      ELSE NetworkError
       IN IF uploadError # OK
          THEN /\ toast' = ErrorToast("Erro ao fazer upload", uploadError)
               /\ UNCHANGED <<blobs, pc, pending, avatarUrl>>
          ELSE /\ blobs' = blobs \cup {fileName}
               /\ avatarUrl' = PublicUrl(fileName)
               /\ pending' = [op |-> "avatar", publicUrl |-> PublicUrl(fileName)]
               /\ pc' = "avatar_row"
               /\ toast' = NoToast
    /\ effect' = NoEffect
    /\ UNCHANGED <<users, profiles, photos, albums, album_photos,
                   nextPhoto, nextAlbum, nextProfile, timestamps, limit>>
    /\ UNCHANGED <<user, homePhotos, albumsList, detail, displayName>>
    /\ Quiet

\* handleAvatarUpload from there to the answer of its second await: update
\* profiles set avatar_url = publicUrl where user_id = user.id
HandleAvatarUploadRow(answered) ==
    /\ pc = "avatar_row"
    /\ IF answered
       THEN /\ profiles' = UpdateAvatar(user, user, pending.publicUrl)
            /\ toast' = Toast("Avatar atualizado!")
       ELSE /\ toast' = ErrorToast("Erro ao atualizar avatar", NetworkError)
            /\ UNCHANGED profiles
    /\ pc' = "idle"
    /\ pending' = NoPending
    /\ effect' = NoEffect
    /\ UNCHANGED <<users, photos, albums, album_photos, blobs, nextPhoto,
                   nextAlbum, nextProfile, timestamps, limit>>
    /\ UNCHANGED <<user, homePhotos, albumsList, detail, profileForm>>
    /\ Quiet

\* ------------------------------------------------------ initial states
\* no account yet, the tab on the auth page
InitAuth ==
    /\ users = {}
    /\ profiles = {}
    /\ photos = {}
    /\ albums = {}
    /\ album_photos = {}
    /\ blobs = {}
    /\ nextPhoto = 1
    /\ nextAlbum = 1
    /\ nextProfile = 1
    /\ timestamps = TRUE
    /\ limit = [photos |-> MaxPhotos, albums |-> MaxAlbums, files |-> 1]
    /\ user = NoUser
    /\ pc = "idle"
    /\ pending = NoPending
    /\ homePhotos = {}
    /\ albumsList = <<>>
    /\ album = NoAlbum
    /\ albumPhotos = <<>>
    /\ availablePhotos = {}
    /\ selectedPhotos = <<>>
    /\ loading = TRUE
    /\ dialogOpen = FALSE
    /\ authLoad = NoRun
    /\ displayName = Empty
    /\ avatarUrl = Empty
    /\ shownBefore = [displayName |-> Empty, avatarUrl |-> Empty]
    /\ toast = NoToast
    /\ response = OK
    /\ effect = NoEffect

\* both accounts have signed up (SignUp("u1") then SignUp("u2") from
\* InitAuth), and a page has just been mounted
Mounted ==
    /\ users = UserIds
    /\ profiles = HandleNewUser(HandleNewUser({}, 1, "u1"), 2, "u2")
    /\ photos = {}
    /\ albums = {}
    /\ album_photos = {}
    /\ blobs = {}
    /\ nextPhoto = 1
    /\ nextAlbum = 1
    /\ nextProfile = 3
    /\ timestamps \in BOOLEAN
    /\ limit \in [photos : 1..MaxPhotos, albums : 1..MaxListed, files : {1}]
    /\ user = NoUser
    /\ pc = "idle"
    /\ pending = NoPending
    /\ homePhotos = {}
    /\ albumsList = <<>>
    /\ album = NoAlbum
    /\ albumPhotos = <<>>
    /\ availablePhotos = {}
    /\ selectedPhotos = <<>>
    /\ loading = TRUE
    /\ dialogOpen = FALSE
    /\ authLoad = NoRun
    /\ displayName = Empty
    /\ avatarUrl = Empty
    /\ shownBefore = [displayName |-> Empty, avatarUrl |-> Empty]
    /\ toast = NoToast
    /\ response = OK
    /\ effect = NoEffect

\* ------------------------------------------------------ specifications
Names == {<<"Trip">>}
DisplayNames == {NoText, <<"Ana">>}
DisplayTexts == {Empty, <<"Ana">>}
AvatarUrls == {NoText, PublicUrl(ObjectName("u1", "avatar"))}
Urls(u) == {PublicUrl(ObjectName(u, 1))}

\* the store under the statements any signed-in client may send
ApiWrites(c) ==
    \/ \E u \in UserIds : \E url \in Urls(u) : ApiInsertPhoto(c, u, url)
    \/ \E u \in UserIds, name \in Names : ApiInsertAlbum(c, u, name)
    \/ \E a \in 1..limit.albums, p \in 1..limit.photos :
           ApiInsertAlbumPhotos(c, <<[album_id |-> a, photo_id |-> p]>>)
    \/ \E a \in 1..limit.albums, p \in 1..limit.photos : ApiDeleteAlbumPhoto(c, a, p)
    \/ \E p \in 1..limit.photos : ApiDeletePhoto(c, p)
    \/ \E a \in 1..limit.albums : ApiDeleteAlbum(c, a)

\* ... and the inserts of two rows handleAddPhotos sends
Next ==
    \E c \in UserIds :
       \/ ApiWrites(c)
       \/ \E a \in 1..limit.albums, p \in 1..limit.photos : \E q \in p..limit.photos :
              ApiInsertAlbumPhotos(c, <<[album_id |-> a, photo_id |-> p],
                                        [album_id |-> a, photo_id |-> q]>>)

\* two accounts, one album at most, added_at kept
Init ==
    /\ Mounted
    /\ timestamps
    /\ limit = [photos |-> MaxPhotos, albums |-> 1, files |-> 1]

Spec == Init /\ [][Next]_vars

\* the Home page over the store
NextHome ==
    \/ \E u \in UserIds : SignIn(u)
    \/ SignOut
    \/ LoadPhotos
    \/ \E f \in 1..limit.files : HandleUploadBlob(f)
    \/ HandleUploadRow
    \/ \E photo \in homePhotos : HandleDeleteBlob(photo)
    \/ HandleDeleteRow
    \/ \E c \in UserIds :
          \/ \E u \in UserIds, name \in Names : ApiInsertAlbum(c, u, name)
          \/ \E a \in 1..limit.albums, p \in 1..limit.photos :
                 ApiInsertAlbumPhotos(c, <<[album_id |-> a, photo_id |-> p]>>)
          \/ \E a \in 1..limit.albums, p \in 0..limit.photos :
                 ApiUpdateAlbumCover(c, a, p)
          \/ \E p \in 1..limit.photos : ApiDeletePhoto(c, p)

InitHome ==
    /\ Mounted
    /\ ~timestamps
    /\ limit = [photos |-> MaxPhotos - 1, albums |-> 1, files |-> 1]

SpecHome == InitHome /\ [][NextHome]_vars

\* the Albums page over the store
NextAlbums ==
    \/ \E u \in UserIds : SignIn(u)
    \/ SignOut
    \/ LoadAlbums
    \/ \E name \in Names : AlbumsHandleCreate(name)
    \/ \E a \in 1..limit.albums : AlbumsHandleDelete(a)
    \/ \E c \in UserIds : ApiWrites(c)

InitAlbums ==
    /\ Mounted
    /\ ~timestamps
    /\ limit = [photos |-> MaxPhotos - 1, albums |-> MaxAlbums, files |-> 1]

SpecAlbums == InitAlbums /\ [][NextAlbums]_vars

\* the AlbumDetail page of /albums/1 in a tab of u1, over the store; the other
\* clients are u1's other sessions and u2, who may own the album instead.
\* Of their requests, those that change no row are left out: the page reads
\* nothing of them.
NextAlbumDetail ==
    \/ SignIn("u1")
    \/ SignOut
    \/ \E answered \in BOOLEAN : LoadAlbum(answered)
    \/ \E answered \in BOOLEAN : LoadMembers(answered)
    \/ \E answered \in BOOLEAN : LoadAvailable(answered)
    \/ \E open \in BOOLEAN : SetDialogOpen(open)
    \/ \E photo \in availablePhotos : ToggleSelected(photo)
    \/ Cancelar
    \/ \E answered \in BOOLEAN : HandleAddPhotos(answered)
    \/ \E p \in 1..limit.photos, answered \in BOOLEAN : HandleRemovePhoto(p, answered)
    \/ \E c \in UserIds :
          \/ \E url \in Urls(c) : ApiInsertPhoto(c, c, url)
          \/ \E name \in Names : ApiInsertAlbum(c, c, name)
          \/ \E p \in 1..limit.photos :
                 LET inserts == <<[album_id |-> id, photo_id |-> p]>>
                 IN /\ InsertAlbumPhotosError(c, inserts) = OK
                    /\ ApiInsertAlbumPhotos(c, inserts)
          \/ \E p \in 1..limit.photos :
                 /\ DeleteAlbumPhotoRows(c, id, p) # album_photos
                 /\ ApiDeleteAlbumPhoto(c, id, p)
          \/ \E p \in 1..limit.photos :
                 /\ DeletePhotoTargets(c, p) # {}
                 /\ ApiDeletePhoto(c, p)

InitAlbumDetail ==
    /\ Mounted
    /\ ~timestamps
    /\ limit = [photos |-> MaxPhotos, albums |-> 1, files |-> 1]

SpecAlbumDetail == InitAlbumDetail /\ [][NextAlbumDetail]_vars

\* accounts and their profiles
NextAuth ==
    \/ \E u \in UserIds : SignUp(u)
    \/ \E u \in UserIds : SignIn(u)
    \/ SignOut
    \/ \E c \in users, u \in UserIds : ApiInsertProfile(c, u)
    \/ \E c \in users, u \in UserIds, name \in DisplayNames, avatar \in AvatarUrls :
           ApiUpdateProfile(c, u, name, avatar)

SpecAuth == InitAuth /\ [][NextAuth]_vars

\* the Profile page over the store
NextProfile ==
    \/ \E u \in UserIds : SignIn(u)
    \/ SignOut
    \/ \E answered \in BOOLEAN : LoadProfile(answered)
    \/ \E text \in DisplayTexts : SetDisplayName(text)
    \/ \E answered \in BOOLEAN : HandleSave(answered)
    \/ \E answered \in BOOLEAN : HandleAvatarUploadBlob(answered)
    \/ \E answered \in BOOLEAN : HandleAvatarUploadRow(answered)
    \/ \E c \in UserIds, u \in UserIds, name \in DisplayNames :
           ApiUpdateProfile(c, u, name, NoText)

InitProfile ==
    /\ Mounted
    /\ ~timestamps
    /\ limit = [photos |-> 1, albums |-> 1, files |-> 1]

SpecProfile == InitProfile /\ [][NextProfile]_vars

\* every statement a client may send on the four tables, by caller c
AllWrites(c) ==
    \/ ApiWrites(c)
    \/ \E a \in 1..limit.albums, p \in 0..limit.photos : ApiUpdateAlbumCover(c, a, p)
    \/ \E u \in UserIds : ApiInsertProfile(c, u)
    \/ \E u \in UserIds, name \in DisplayNames, avatar \in AvatarUrls :
           ApiUpdateProfile(c, u, name, avatar)

\* the store under the requests of a client without a session, whose
\* auth.uid() is null, next to signed-in clients writing their own rows
NextAnon ==
    \/ AllWrites(NoUser)
    \/ \E c \in UserIds :
          \/ \E url \in Urls(c) : ApiInsertPhoto(c, c, url)
          \/ \E name \in Names : ApiInsertAlbum(c, c, name)
          \/ \E a \in 1..limit.albums, p \in 1..limit.photos :
                 LET inserts == <<[album_id |-> a, photo_id |-> p]>>
                 IN /\ InsertAlbumPhotosError(c, inserts) = OK
                    /\ ApiInsertAlbumPhotos(c, inserts)
          \/ \E a \in 1..limit.albums, p \in 1..limit.photos :
                 /\ CoverRefExists(p)
                 /\ ApiUpdateAlbumCover(c, a, p)
          \/ ApiUpdateProfile(c, c, <<"Ana">>, NoText)

InitAnon ==
    /\ Mounted
    /\ ~timestamps
    /\ limit = [photos |-> MaxPhotos, albums |-> 1, files |-> 1]

SpecAnon == InitAnon /\ [][NextAnon]_vars

\* the Albums page in a tab of u1 over the store, u1's other sessions
\* uploading photos (each file named by a later Date.now()), creating the
\* album, adding and removing members and setting the cover; added_at kept
NextAlbumCovers ==
    \/ SignIn("u1")
    \/ SignOut
    \/ LoadAlbums
    \/ ApiInsertPhoto("u1", "u1", PublicUrl(ObjectName("u1", nextPhoto)))
    \/ \E name \in Names : ApiInsertAlbum("u1", "u1", name)
    \/ \E a \in 1..limit.albums, p \in 1..limit.photos :
           LET inserts == <<[album_id |-> a, photo_id |-> p]>>
           IN /\ InsertAlbumPhotosError("u1", inserts) = OK
              /\ ApiInsertAlbumPhotos("u1", inserts)
    \/ \E a \in 1..limit.albums, p \in 1..limit.photos :
           /\ DeleteAlbumPhotoRows("u1", a, p) # album_photos
           /\ ApiDeleteAlbumPhoto("u1", a, p)
    \/ \E a \in 1..limit.albums, p \in 1..limit.photos :
           /\ CoverRefExists(p)
           /\ ApiUpdateAlbumCover("u1", a, p)

InitAlbumCovers ==
    /\ Mounted
    /\ timestamps
    /\ limit = [photos |-> MaxPhotos, albums |-> MaxAlbums, files |-> 1]

SpecAlbumCovers == InitAlbumCovers /\ [][NextAlbumCovers]_vars

\* the loads of the AlbumDetail page of /albums/1 in a tab of u1, u1's other
\* sessions uploading photos, creating the album and adding and removing
\* members one at a time; added_at kept
NextAlbumMembers ==
    \/ SignIn("u1")
    \/ SignOut
    \/ \E answered \in BOOLEAN : LoadAlbum(answered)
    \/ \E answered \in BOOLEAN : LoadMembers(answered)
    \/ \E answered \in BOOLEAN : LoadAvailable(answered)
    \/ \E url \in Urls("u1") : ApiInsertPhoto("u1", "u1", url)
    \/ \E name \in Names : ApiInsertAlbum("u1", "u1", name)
    \/ \E p \in 1..limit.photos :
           LET inserts == <<[album_id |-> id, photo_id |-> p]>>
           IN /\ InsertAlbumPhotosError("u1", inserts) = OK
              /\ ApiInsertAlbumPhotos("u1", inserts)
    \/ \E p \in 1..limit.photos :
           /\ DeleteAlbumPhotoRows("u1", id, p) # album_photos
           /\ ApiDeleteAlbumPhoto("u1", id, p)

InitAlbumMembers ==
    /\ Mounted
    /\ timestamps
    /\ limit = [photos |-> MaxPhotos, albums |-> 1, files |-> 1]

SpecAlbumMembers == InitAlbumMembers /\ [][NextAlbumMembers]_vars

\* the Albums page over a store of albums only, both users creating albums
\* from other sessions
NextAlbumList ==
    \/ \E u \in UserIds : SignIn(u)
    \/ SignOut
    \/ LoadAlbums
    \/ \E name \in Names : AlbumsHandleCreate(name)
    \/ \E a \in 1..limit.albums : AlbumsHandleDelete(a)
    \/ \E c \in UserIds, name \in Names : ApiInsertAlbum(c, c, name)

InitAlbumList ==
    /\ Mounted
    /\ ~timestamps
    /\ limit = [photos |-> 1, albums |-> MaxListed, files |-> 1]

SpecAlbumList == InitAlbumList /\ [][NextAlbumList]_vars

\* the values of an album's name: what is typed into the form, and what a
\* client may put into an insert
NameInputs == {Empty, <<"Trip">>}
NameValues == {NoText, Empty, <<"Trip">>}

\* the Albums page and its create form over a store of albums only, and the
\* inserts of other clients
NextAlbumNames ==
    \/ \E u \in UserIds : SignIn(u)
    \/ SignOut
    \/ LoadAlbums
    \/ \E name \in NameInputs : Required(name) /\ AlbumsHandleCreate(name)
    \/ \E a \in 1..limit.albums : AlbumsHandleDelete(a)
    \/ \E c \in UserIds, name \in NameValues : ApiInsertAlbum(c, c, name)

InitAlbumNames ==
    /\ Mounted
    /\ ~timestamps
    /\ limit = [photos |-> 1, albums |-> MaxAlbums + 1, files |-> 1]

SpecAlbumNames == InitAlbumNames /\ [][NextAlbumNames]_vars

\* the loads and the Remover button of the AlbumDetail page of /albums/1 in
\* a tab of u1, u1's other sessions uploading and deleting photos, creating
\* the album and adding and removing members
NextAlbumRemove ==
    \/ SignIn("u1")
    \/ SignOut
    \/ \E answered \in BOOLEAN : LoadAlbum(answered)
    \/ \E answered \in BOOLEAN : LoadMembers(answered)
    \/ \E answered \in BOOLEAN : LoadAvailable(answered)
    \/ \E p \in 1..limit.photos, answered \in BOOLEAN : HandleRemovePhoto(p, answered)
    \/ \E url \in Urls("u1") : ApiInsertPhoto("u1", "u1", url)
    \/ \E name \in Names : ApiInsertAlbum("u1", "u1", name)
    \/ \E p \in 1..limit.photos :
           LET inserts == <<[album_id |-> id, photo_id |-> p]>>
           IN /\ InsertAlbumPhotosError("u1", inserts) = OK
              /\ ApiInsertAlbumPhotos("u1", inserts)
    \/ \E p \in 1..limit.photos :
           /\ DeleteAlbumPhotoRows("u1", id, p) # album_photos
           /\ ApiDeleteAlbumPhoto("u1", id, p)
    \/ \E p \in 1..limit.photos :
           /\ DeletePhotoTargets("u1", p) # {}
           /\ ApiDeletePhoto("u1", p)

SpecAlbumRemove == InitAlbumDetail /\ [][NextAlbumRemove]_vars

\* the store under the own-row writes of its clients and under updates of
\* user_id sent by any client for any row
NextOwners ==
    \E c \in UserIds :
       \/ \E url \in Urls(c) : ApiInsertPhoto(c, c, url)
       \/ \E name \in Names : ApiInsertAlbum(c, c, name)
       \/ \E p \in 1..limit.photos :
              /\ DeletePhotoTargets(c, p) # {}
              /\ ApiDeletePhoto(c, p)
       \/ \E a \in 1..limit.albums :
              /\ DeleteAlbumTargets(c, a) # {}
              /\ ApiDeleteAlbum(c, a)
       \/ \E a \in 1..limit.albums, p \in 1..limit.photos :
              /\ CoverRefExists(p)
              /\ ApiUpdateAlbumCover(c, a, p)
       \/ \E p \in 1..limit.photos, v \in UserIds \cup {NoUser} : ApiUpdatePhotoOwner(c, p, v)
       \/ \E a \in 1..limit.albums, v \in UserIds \cup {NoUser} : ApiUpdateAlbumOwner(c, a, v)

InitOwners ==
    /\ Mounted
    /\ ~timestamps
    /\ limit = [photos |-> MaxPhotos, albums |-> MaxAlbums, files |-> 1]

SpecOwners == InitOwners /\ [][NextOwners]_vars

\* the Home page and its upload over the store, and the photo rows other
\* clients insert for themselves with the url of any object of the bucket
NextPhotoUrls ==
    \/ \E u \in UserIds : SignIn(u)
    \/ SignOut
    \/ LoadPhotos
    \/ \E f \in 1..limit.files : HandleUploadBlob(f)
    \/ HandleUploadRow
    \/ \E c \in UserIds, u \in UserIds : \E url \in Urls(u) : ApiInsertPhoto(c, c, url)

InitPhotoUrls ==
    /\ Mounted
    /\ ~timestamps
    /\ limit = [photos |-> MaxPhotos, albums |-> 1, files |-> 1]

SpecPhotoUrls == InitPhotoUrls /\ [][NextPhotoUrls]_vars

\* the objects of the bucket the requests name
ObjectNames == {ObjectName(u, f) : u \in UserIds, f \in 1..limit.files}

\* the bucket under the uploads and removes of any client for any object,
\* next to the Home page, whose photos may carry the url of any object
NextBlobs ==
    \/ \E u \in UserIds : SignIn(u)
    \/ SignOut
    \/ LoadPhotos
    \/ \E f \in 1..limit.files : HandleUploadBlob(f)
    \/ HandleUploadRow
    \/ \E photo \in homePhotos : HandleDeleteBlob(photo)
    \/ HandleDeleteRow
    \/ \E c \in UserIds, u \in UserIds : \E url \in Urls(u) : ApiInsertPhoto(c, c, url)
    \/ \E c \in UserIds, name \in ObjectNames, upsert \in BOOLEAN : ApiUpload(c, name, upsert)
    \/ \E c \in UserIds, name \in ObjectNames : ApiRemove(c, name)

InitBlobs ==
    /\ Mounted
    /\ ~timestamps
    /\ limit = [photos |-> MaxPhotos, albums |-> 1, files |-> 1]

SpecBlobs == InitBlobs /\ [][NextBlobs]_vars

\* AlbumDetail with the two loadAlbumData runs of its effect, the run of
\* getSession and the run of onAuthStateChange, and the reloads after a
\* write; the same user adds photos and members from another session
NextOverlap ==
    \/ SignIn("u1")
    \/ \E answered \in BOOLEAN : LoadAlbum(answered)
    \/ \E answered \in BOOLEAN : LoadMembers(answered)
    \/ \E answered \in BOOLEAN : LoadAvailable(answered)
    \/ OnAuthStateChange
    \/ \E answered \in BOOLEAN : AuthLoadAlbum(answered)
    \/ \E answered \in BOOLEAN : AuthLoadMembers(answered)
    \/ \E answered \in BOOLEAN : AuthLoadAvailable(answered)
    \/ \E p \in 1..limit.photos, answered \in BOOLEAN : HandleRemovePhoto(p, answered)
    \/ \E url \in Urls("u1") : ApiInsertPhoto("u1", "u1", url)
    \/ \E name \in Names : ApiInsertAlbum("u1", "u1", name)
    \/ \E p \in 1..limit.photos :
           LET inserts == <<[album_id |-> id, photo_id |-> p]>>
           IN /\ InsertAlbumPhotosError("u1", inserts) = OK
              /\ ApiInsertAlbumPhotos("u1", inserts)

InitOverlap ==
    /\ Mounted
    /\ ~timestamps
    /\ limit = [photos |-> MaxPhotos - 1, albums |-> MaxAlbums, files |-> 1]

SpecOverlap == InitOverlap /\ [][NextOverlap]_vars

\* the same page where every request of a loadAlbumData run is answered in
\* the end, with data or with an error
LoadsAnswered ==
    /\ WF_vars(\E answered \in BOOLEAN : LoadAlbum(answered))
    /\ WF_vars(\E answered \in BOOLEAN : LoadMembers(answered))
    /\ WF_vars(\E answered \in BOOLEAN : LoadAvailable(answered))
    /\ WF_vars(\E answered \in BOOLEAN : AuthLoadAlbum(answered))
    /\ WF_vars(\E answered \in BOOLEAN : AuthLoadMembers(answered))
    /\ WF_vars(\E answered \in BOOLEAN : AuthLoadAvailable(answered))

SpecLoads == InitOverlap /\ [][NextOverlap]_vars /\ LoadsAnswered

\* ---------------------------------------------------------- properties
\* C1: when Home's handleDelete deletes a photo P of the signed-in user and
\* reports success, the photo row is gone, no album_photos row references P,
\* and every album whose cover was P is still there, the same but for its
\* cover_photo_id, which is cleared.
C1_DeletePhotoCascades ==
    [][(HandleDeleteRow /\ toast'.err = OK) =>
          LET P == pending.photoId
          IN (\E r \in photos : r.id = P /\ r.user_id = user) =>
                /\ P \notin Ids(photos')
                /\ \A r \in album_photos' : r.photo_id # P
                /\ \A a \in albums :
                      a.cover_photo_id = P =>
                         [a EXCEPT !.cover_photo_id = NULL] \in albums'
      ]_vars

\* handleDelete has just deleted a photo that was a member of an album and
\* the cover of an album, and that album is there with no cover
C1_Witness ==
    /\ toast = Toast("Foto excluída")
    /\ effect.photos # {}
    /\ effect.members # {}
    /\ \E a \in albums : a.id \in effect.covers /\ a.cover_photo_id = NULL

\* C2: when Albums' handleDelete deletes an album A of the signed-in user and
\* reports success, no album_photos row of A is left, and every photo that
\* was a member of A is still a row of photos, unchanged, and is returned by
\* its owner's listing of photos.
C2_DeleteAlbumKeepsPhotos ==
    [][\A a \in AlbumIds :
          (AlbumsHandleDelete(a) /\ toast'.err = OK /\ OwnsAlbum(user, a)) =>
             /\ \A r \in album_photos' : r.album_id # a
             /\ \A r \in album_photos :
                   r.album_id = a =>
                      \A p \in photos :
                         p.id = r.photo_id =>
                            /\ p \in photos'
                            /\ p \in SelectPhotos(p.user_id, p.user_id)'
      ]_vars

\* handleDelete has just deleted an album that had members, and the photos
\* that were its members are there
C2_Witness ==
    /\ toast = Toast("Álbum excluído")
    /\ effect.albums # {}
    /\ effect.members # {}
    /\ \A m \in effect.members : m[2] \in Ids(photos)

\* C3: in every state of the store every album_photos row references an
\* album that exists and a photo that exists, and no two rows have the same
\* (album_id, photo_id).
C3_MembershipIntegrity ==
    /\ \A r \in album_photos : /\ r.album_id \in Ids(albums)
                               /\ r.photo_id \in Ids(photos)
    /\ \A r1, r2 \in album_photos :
          (r1.album_id = r2.album_id /\ r1.photo_id = r2.photo_id) => r1 = r2

\* an insert of a pair that is there has just been refused, in a store where
\* a photo has been deleted and a membership row is left
C3_Witness ==
    /\ response = UniqueViolation
    /\ album_photos # {}
    /\ Cardinality(photos) < nextPhoto - 1

\* C4: a handleAddPhotos of the album's owner, with photos of the owner that
\* exist, that reaches the backend reports no error and leaves as members the
\* members there were and the selected photos: a pair that is there already
\* is skipped.
C4_AddIsIdempotentUnion ==
    [][(/\ HandleAddPhotos(TRUE)
        /\ OwnsAlbum(user, id)
        /\ Range(selectedPhotos) \subseteq Ids(SelectPhotos(user, user))) =>
          /\ toast'.err = OK
          /\ Pairs(album_photos') =
                Pairs(album_photos) \cup Pairs(Range(Inserts(selectedPhotos)))
      ]_vars

\* C5: no album_photos row pairs an album and a photo of different owners.
C5_NoCrossOwnerMembership ==
    \A r \in album_photos :
       \A a \in albums, p \in photos :
          (a.id = r.album_id /\ p.id = r.photo_id) => a.user_id = p.user_id

\* C6: a write on an album that exists, sent by a caller who does not own it
\* (delete the album, add a photo, remove a photo), is answered with an error
\* and leaves the album's row and its membership rows as they were.
C6_NonOwnerWritesRefused ==
    [][\A c \in UserIds, a \in AlbumIds :
          (a \in Ids(albums) /\ ~OwnsAlbum(c, a)) =>
             /\ ApiDeleteAlbum(c, a) =>
                   (response' # OK /\ UNCHANGED <<albums, album_photos>>)
             /\ \A p \in PhotoIds :
                   /\ ApiDeleteAlbumPhoto(c, a, p) =>
                         (response' # OK /\ UNCHANGED <<albums, album_photos>>)
                   /\ ApiInsertAlbumPhotos(c, <<[album_id |-> a, photo_id |-> p]>>) =>
                         (response' # OK /\ UNCHANGED <<albums, album_photos>>)
      ]_vars

\* C7: when a loadAlbumData of the album's owner, all of whose reads were
\* answered, ends, the members list and the available list are disjoint and
\* together they are the photos of the owner.
C7_LoadPartitionsOwnPhotos ==
    [][(LoadAvailable(TRUE) /\ OwnsAlbum(user, id)) =>
          /\ Ids(Range(albumPhotos')) \cap Ids(availablePhotos') = {}
          /\ Range(albumPhotos') \cup availablePhotos' =
                PhotoColumns(SelectPhotos(user, user))
      ]_vars

\* C8: every account has exactly one profiles row with its id as user_id.
C8_OneProfilePerUser ==
    \A u \in users : Cardinality({r \in profiles : r.user_id = u}) = 1

\* an account is signed in, and the insert of a second profiles row for an
\* account has just been refused
C8_Witness ==
    /\ user \in users
    /\ response = UniqueViolation

\* C9: a handleAddPhotos that raises the error toast has added none of the
\* selected pairs, and one that raises the success toast has added them all.
C9_AddIsAllOrNothing ==
    [][\A answered \in BOOLEAN :
          HandleAddPhotos(answered) =>
             /\ toast'.err # OK => album_photos' = album_photos
             /\ toast'.err = OK =>
                   Pairs(Range(Inserts(selectedPhotos))) \subseteq Pairs(album_photos')
      ]_vars

\* handleAddPhotos has just failed on a pair that is there already, with
\* another selected pair that could have been added and is not there
C9_Witness ==
    /\ toast = ErrorToast("Erro ao adicionar fotos", UniqueViolation)
    /\ \E i, j \in DOMAIN selectedPhotos :
          /\ <<id, selectedPhotos[i]>> \in Pairs(album_photos)
          /\ <<id, selectedPhotos[j]>> \notin Pairs(album_photos)
          /\ selectedPhotos[j] \in Ids(SelectPhotos(user, user))

\* C10: whatever another session of the owner has done to the pairs meanwhile,
\* no pair has two rows; a handleAddPhotos that selects a pair that is there
\* already reports no error and adds the other selected pairs; and a
\* handleRemovePhoto of a pair that is gone already reports no error and
\* changes nothing.
C10_RacesAreHarmless ==
    [][/\ Cardinality(Pairs(album_photos')) = Cardinality(album_photos')
       /\ (/\ HandleAddPhotos(TRUE)
           /\ OwnsAlbum(user, id)
           /\ Range(selectedPhotos) \subseteq Ids(SelectPhotos(user, user))
           /\ Pairs(Range(Inserts(selectedPhotos))) \cap Pairs(album_photos) # {}) =>
             /\ toast'.err = OK
             /\ Pairs(Range(Inserts(selectedPhotos))) \subseteq Pairs(album_photos')
       /\ \A p \in PhotoIds :
             (HandleRemovePhoto(p, TRUE) /\ <<id, p>> \notin Pairs(album_photos)) =>
                /\ toast'.err = OK
                /\ album_photos' = album_photos
      ]_vars

\* C11: when a write of the Profile page fails (the update of handleSave, the
\* upload or the update of handleAvatarUpload), a destructive toast reports
\* it and the page shows the displayName and the avatarUrl it showed when the
\* handler started
C11_FailedWriteKeepsView ==
    [][(HandleSave(FALSE) \/ HandleAvatarUploadBlob(FALSE) \/ HandleAvatarUploadRow(FALSE))
         => /\ toast'.err # OK
            /\ displayName' = displayName
            /\ avatarUrl' = shownBefore'.avatarUrl]_vars

\* C12: every step of the Profile page whose backend call came back with an
\* error (the read of loadProfile, the update of handleSave, the upload and
\* the update of handleAvatarUpload) raises a toast carrying that error
C12_ErrorsAreSurfaced ==
    [][(\/ LoadProfile(FALSE)
        \/ HandleSave(FALSE)
        \/ HandleAvatarUploadBlob(FALSE)
        \/ HandleAvatarUploadRow(FALSE)) => toast'.err # OK]_vars

\* C13: whatever filter a user U puts on user_id, U's read of photos and of
\* albums answers exactly U's own rows of that filter, U's read of the
\* members of an album answers exactly the membership rows of U's albums,
\* each with U's own photo or with null, so that all three are functions of
\* the rows U owns alone; U's read of profiles answers the profile of any
\* user
C13_ReadsDependOnOwnRowsOnly ==
    \A U \in UserIds :
       LET ownPhotos == {p \in photos : p.user_id = U}
           ownAlbums == {a \in albums : a.user_id = U}
           ownMembers == {r \in album_photos : r.album_id \in Ids(ownAlbums)}
           embedded(r) == IF r.photo_id \in Ids(ownPhotos)
                          THEN LET p == CHOOSE q \in ownPhotos : q.id = r.photo_id
                               IN [id |-> p.id, url |-> p.url]
                          ELSE NullPhoto
       IN /\ \A V \in UserIds :
               /\ SelectPhotos(U, V) = IF V = U THEN ownPhotos ELSE {}
               /\ SelectAlbums(U, V) = IF V = U THEN ownAlbums ELSE {}
               /\ SelectProfiles(U, V) = {r \in profiles : r.user_id = V}
          /\ \A a \in AlbumIds :
               SelectAlbumPhotos(U, a) =
                   {[added_at |-> r.added_at, photos |-> embedded(r)]
                      : r \in {x \in ownMembers : x.album_id = a}}

\* both users own a photo, and an album of one of them has both photos as
\* members
C13_Witness ==
    \E a \in albums : \E p \in photos, q \in photos :
       /\ p.user_id = a.user_id
       /\ q.user_id # a.user_id
       /\ {<<a.id, p.id>>, <<a.id, q.id>>} \subseteq Pairs(album_photos)
       /\ SelectProfiles(a.user_id, q.user_id) # {}

C15_CoverAndCount ==
    [][(LoadAlbums /\ toast'.err = OK) =>
          \A i \in DOMAIN albumsList' :
             LET x == albumsList'[i]
                 a == CHOOSE r \in albums : r.id = x.id
                 members == {r \in album_photos : r.album_id = a.id}
                 url(photoId) == (CHOOSE p \in photos : p.id = photoId).url
                 last == CHOOSE r \in members : \A o \in members : o.added_at <= r.added_at
             IN /\ RenderedCover(x) =
                      IF a.cover_photo_id # NULL
                         /\ a.cover_photo_id \in {r.photo_id : r \in members}
                      THEN url(a.cover_photo_id)
                      ELSE IF members # {} THEN url(last.photo_id)
                      ELSE NoText
                /\ RenderedCount(x) = Cardinality(members)
      ]_vars

\* C16: when the members read of loadAlbumData is answered, albumPhotos holds
\* each photo that is a member of the album once and nothing else, a photo
\* added later standing before a photo added earlier
C16_MembersLatestFirst ==
    [][LoadMembers(TRUE) =>
          LET members == {r \in album_photos : r.album_id = id}
              added_at(photoId) == (CHOOSE r \in members : r.photo_id = photoId).added_at
          IN /\ Len(albumPhotos') = Cardinality(members)
             /\ Ids(Range(albumPhotos')) = {r.photo_id : r \in members}
             /\ \A i, j \in DOMAIN albumPhotos' :
                   i < j => added_at(albumPhotos'[i].id) >= added_at(albumPhotos'[j].id)
      ]_vars

\* C17: when loadAlbums is answered, the list holds each album of the
\* signed-in user once and no album of anyone else, an album created later
\* standing before an album created earlier
C17_OwnAlbumsLatestFirst ==
    [][(LoadAlbums /\ toast'.err = OK) =>
          /\ Len(albumsList') = Cardinality({a \in albums : a.user_id = user})
          /\ Ids(Range(albumsList')) = Ids({a \in albums : a.user_id = user})
          /\ \A i, j \in DOMAIN albumsList' :
                i < j => albumsList'[i].created_at > albumsList'[j].created_at
      ]_vars

\* the page lists two albums of its user while another user owns an album
\* created between them
C17_Witness ==
    /\ pc = "idle"
    /\ Len(albumsList) = 2
    /\ \E a \in albums :
          /\ a.user_id # user
          /\ albumsList[2].created_at < a.created_at
          /\ a.created_at < albumsList[1].created_at

\* C18: when Home's handleDelete sends its delete for a photo that is no
\* longer a row of the signed-in user (it was deleted from another session
\* since the page loaded), the handler raises an error toast and no photo,
\* album or membership row changes
C18_DeleteOfMissingPhotoFails ==
    [][(HandleDeleteRow /\ DeletePhotoTargets(user, pending.photoId) = {}) =>
          /\ toast'.err # OK
          /\ UNCHANGED <<photos, albums, album_photos>>
      ]_vars

\* C19: an answered handleRemovePhoto(photoId) of the album's owner removes
\* the row (id, photoId) if there is one and nothing if there is none, raises
\* no error toast in either case, and changes no other membership row, no
\* album and no photo
C19_RemoveDeletesOnlyThatRow ==
    [][\A photoId \in PhotoIds :
          (HandleRemovePhoto(photoId, TRUE) /\ OwnsAlbum(user, id)) =>
             /\ album_photos' = {r \in album_photos :
                                   ~(r.album_id = id /\ r.photo_id = photoId)}
             /\ toast'.err = OK
             /\ UNCHANGED <<photos, albums>>
      ]_vars

\* the owner has just removed a photo that another session had removed
\* before: no row went, no error was raised, and the album's other member is
\* still there
C19_Witness ==
    /\ toast = Toast("Foto removida")
    /\ OwnsAlbum(user, id)
    /\ effect.members = {}
    /\ \E r \in album_photos : r.album_id = id

\* C20: an insert of an album whose name is the empty string is answered with
\* an error and adds no row, whoever sends it, and no album row ever has an
\* empty or missing name
C20_NoEmptyAlbumName ==
    [][/\ \A c \in UserIds, u \in UserIds :
             ApiInsertAlbum(c, u, Empty) => (response' # OK /\ UNCHANGED albums)
       /\ \A a \in albums' : a.name # Empty /\ a.name # NoText
      ]_vars

\* C21: in every step, a photo row and an album row that are there before
\* and after the step have the user_id they had
C21_UserIdImmutable ==
    [][/\ \A p \in photos : \A q \in photos' : p.id = q.id => p.user_id = q.user_id
       /\ \A a \in albums : \A b \in albums' : a.id = b.id => a.user_id = b.user_id
      ]_vars

\* an update of user_id sent by the owner of the row has just been refused,
\* in a store with a photo of each user and an album
C21_Witness ==
    /\ response = RlsViolation
    /\ \A u \in UserIds : \E p \in photos : p.user_id = u
    /\ albums # {}

\* C22: the url of every photo row names an object whose folder, the first
\* segment of its path, is the user_id of the row
C22_UrlUnderOwnersFolder ==
    \A p \in photos : PathOfUrl(p.url).folder = p.user_id

C24_ProfileChangedByOwnerOnly ==
    [][/\ \A c \in UserIds, u \in UserIds, name \in DisplayNames :
             (c # u /\ ApiUpdateProfile(c, u, name, NoText)) => UNCHANGED profiles
       /\ \A r \in profiles \ profiles' :
             \/ /\ user = r.user_id
                /\ \E answered \in BOOLEAN :
                      HandleSave(answered) \/ HandleAvatarUploadRow(answered)
             \/ \E name \in DisplayNames :
                   ApiUpdateProfile(r.user_id, r.user_id, name, NoText)
      ]_vars

\* u1 has saved a display name and an avatar from the Profile page, while the
\* row of u2 is as it was created
C24_Witness ==
    /\ user = "u1"
    /\ \E r \in profiles :
          /\ r.user_id = "u1"
          /\ r.display_name # Email("u1")
          /\ r.avatar_url # NoText
    /\ \E r \in profiles :
          /\ r.user_id = "u2"
          /\ r.display_name = Email("u2")
          /\ r.avatar_url = NoText

\* C25: a sign-up adds exactly one profiles row, whose user_id is the new
\* account, whose display_name is the account's email and whose avatar_url
\* is null
C25_SignupProfile ==
    [][\A u \in UserIds :
          SignUp(u) =>
             \E r \in profiles' :
                /\ profiles' \ profiles = {r}
                /\ r.user_id = u
                /\ r.display_name = Email(u)
                /\ r.avatar_url = NoText
      ]_vars

\* both accounts have signed up, the profile of one is as the trigger made
\* it and that of the other has been given a name and an avatar since
C25_Witness ==
    /\ users = UserIds
    /\ \E r \in profiles :
          /\ r.display_name = Email(r.user_id)
          /\ r.avatar_url = NoText
    /\ \E r \in profiles :
          /\ r.display_name # Email(r.user_id)
          /\ r.avatar_url # NoText

\* C26: outside the two requests of a running handleDelete, the url of every
\* photos row names an object that is in the bucket
C26_RowsHaveBlobs ==
    pc # "delete_row" => \A p \in photos : PathOfUrl(p.url) \in blobs

\* C27: when no loadAlbumData run is under way and the page shows the album,
\* no photo is both in albumPhotos and in availablePhotos
C27_ListsDisjointAfterLoads ==
    (pc = "idle" /\ authLoad = NoRun /\ album # NoAlbum /\ ~loading)
       => Ids(Range(albumPhotos)) \cap Ids(availablePhotos) = {}

\* C28: whenever the album page is rendered with no load under way,
\* selectedPhotos holds no id twice and only ids of availablePhotos
C28_SelectionWithinAvailable ==
    (Rendered /\ ~loading) =>
       /\ \A i, j \in DOMAIN selectedPhotos :
             selectedPhotos[i] = selectedPhotos[j] => i = j
       /\ Range(selectedPhotos) \subseteq Ids(availablePhotos)

\* C29: once a loadAlbumData run has set loading to true, loading is false
\* again at some later time
C29_LoadingEnds ==
    ((user # NoUser /\ pc = "load") \/ authLoad.pc = "album") ~> ~loading

====
